---- MODULE Spec2Model ----
(***************************************************************************)
(* A model of the path tracer of src/src/main.rs and src/src/vec3.rs.      *)
(*                                                                         *)
(* Numbers.  An f64 is modelled as a fixed-point number.  A length or a    *)
(* ray parameter x is the integer x * Q, a colour channel c is the integer *)
(* c * CQ.  Sums and products of grid values are exact (a dot product of   *)
(* two vectors is kept at scale Q * Q), as they are in f64 for small       *)
(* dyadic values; a square root, a division and a product that is stored   *)
(* back on the grid round toward zero.  A NaN colour channel (0/0 in       *)
(* Vec3::unit) is the value NaN.                                           *)
(***************************************************************************)
EXTENDS Integers, Sequences, FiniteSets

VARIABLES
    pc,        \* position in the program
    world,     \* World.hittables
    cam,       \* Camera
    r,         \* the ray of the current invocation of color / hit
    win,       \* <<t_min, t_max>> of the current hit query
    hits,      \* what each primitive's hit returned to World::hit
    rec,       \* what World::hit returned
    depth,     \* the depth argument of the current invocation of color
    p,         \* random_in_unit_sphere's local p
    sc,        \* what Material::scatter returned
    atts,      \* the attenuations of the suspended invocations of color
    ret,       \* the value the last finished invocation of color returned
    col,       \* main's accumulator col
    i, j, k,   \* main's loop counters
    uv,        \* main's locals u and v
    img_data   \* main's output buffer

vars == <<pc, world, cam, r, win, hits, rec, depth, p, sc, atts, ret, col,
          i, j, k, uv, img_data>>

(***************************************************************************)
(* Bounds of the model.                                                    *)
(***************************************************************************)
Q == 4          \* grid units per 1.0 of length
CQ == 300       \* grid units per 1.0 of colour
RandN == 2      \* main's runs: rand::random::<f64>() returns one of 0/RandN .. (RandN-1)/RandN
RandFine == 4   \* the same for a scatter made on its own
NX == 2         \* image width  (nx)
NY == 2         \* image height (ny)
NS == 1         \* samples per pixel (num_samples_per_pixel)
MaxCoord == 2   \* input rays of the hit queries start at 0, y/2, z/2, y and z in -MaxCoord..MaxCoord
MaxWin == 3     \* input windows of the hit queries have bounds in 0..MaxWin
SP == 100       \* extra digits of the square root of a colour channel

(***************************************************************************)
(* Program constants.                                                      *)
(***************************************************************************)
MaxDepth == 50          \* the cap of color's guard depth < 50
F64Max == 1000000       \* std::f64::MAX: above every ray parameter of the model
NaN == -1000000         \* a channel of the unit of the zero vector (0.0 / 0.0)

None == <<>>
Some(x) == <<x>>
Val(o) == o[1]

(***************************************************************************)
(* f64 arithmetic on the grid.                                             *)
(***************************************************************************)
Abs(x) == IF x < 0 THEN -x ELSE x

\* x / y rounded toward zero, y # 0
TDiv(x, y) ==
    IF (x >= 0) = (y > 0) THEN Abs(x) \div Abs(y) ELSE -(Abs(x) \div Abs(y))

\* the literal n/d as a length, as a colour channel
Fx(n, d) == TDiv(n * Q, d)
Cx(n, d) == TDiv(n * CQ, d)

RECURSIVE SqrtSearch(_, _, _)
SqrtSearch(n, lo, hi) ==
    IF lo >= hi THEN lo
    ELSE LET mid == (lo + hi + 1) \div 2
         IN  IF mid * mid <= n THEN SqrtSearch(n, mid, hi)
                               ELSE SqrtSearch(n, lo, mid - 1)

\* f64::sqrt of n >= 0, rounded toward zero
ISqrt(n) == SqrtSearch(n, 0, IF n < 46340 THEN n ELSE 46340)

(***************************************************************************)
(* vec3.rs                                                                 *)
(***************************************************************************)
Vec3(x, y, z) == <<x, y, z>>
Add(u, v) == <<u[1] + v[1], u[2] + v[2], u[3] + v[3]>>
Neg(u) == <<-u[1], -u[2], -u[3]>>
Sub(u, v) == Add(u, Neg(v))
\* Vec3 * f64 and f64 * Vec3, the scalar on the grid of scale s
MulS(u, s) == <<TDiv(u[1] * s, Q), TDiv(u[2] * s, Q), TDiv(u[3] * s, Q)>>
\* Vec3 / f64
DivS(u, s) == <<TDiv(u[1] * Q, s), TDiv(u[2] * Q, s), TDiv(u[3] * Q, s)>>
\* at scale Q * Q
Dot(u, v) == u[1] * v[1] + u[2] * v[2] + u[3] * v[3]
Length(u) == ISqrt(Dot(u, u))
Unit(u) == DivS(u, Length(u))
SquaredLength(u) == Dot(u, u)
\* d - 2 (d . n) n
Reflect(d, n) ==
    LET dn == Dot(d, n)
    IN  <<d[1] - TDiv(2 * dn * n[1], Q * Q),
          d[2] - TDiv(2 * dn * n[2], Q * Q),
          d[3] - TDiv(2 * dn * n[3], Q * Q)>>

(***************************************************************************)
(* Ray                                                                     *)
(***************************************************************************)
Ray(a, b) == [a |-> a, b |-> b]
PointAtParameter(ray, t) == Add(ray.a, MulS(ray.b, t))

(***************************************************************************)
(* Sphere::hit                                                             *)
(***************************************************************************)
Sphere(center, radius, material) ==
    [center |-> center, radius |-> radius, material |-> material]

HitA(s, ray) == Dot(ray.b, ray.b)
HitB(s, ray) == 2 * Dot(Sub(ray.a, s.center), ray.b)
HitC(s, ray) ==
    Dot(Sub(ray.a, s.center), Sub(ray.a, s.center)) - s.radius * s.radius
\* at scale Q^4
Discriminant(s, ray) ==
    HitB(s, ray) * HitB(s, ray) - 4 * HitA(s, ray) * HitC(s, ray)
SolPos(s, ray) ==
    TDiv((-HitB(s, ray) + ISqrt(Discriminant(s, ray))) * Q, 2 * HitA(s, ray))
SolNeg(s, ray) ==
    TDiv((-HitB(s, ray) - ISqrt(Discriminant(s, ray))) * Q, 2 * HitA(s, ray))

\* the mutants of SelectT
SelectTFarFirst(s, ray, t_min, t_max) ==
    IF SolPos(s, ray) > t_min /\ SolPos(s, ray) < t_max THEN Some(SolPos(s, ray))
    ELSE IF SolNeg(s, ray) > t_min /\ SolNeg(s, ray) < t_max
         THEN Some(SolNeg(s, ray))
         ELSE None
SelectTClosedWindow(s, ray, t_min, t_max) ==
    IF SolNeg(s, ray) >= t_min /\ SolNeg(s, ray) <= t_max THEN Some(SolNeg(s, ray))
    ELSE IF SolPos(s, ray) >= t_min /\ SolPos(s, ray) <= t_max
         THEN Some(SolPos(s, ray))
         ELSE None

\* the local t of Sphere::hit, once the discriminant is known to be positive
SelectT(s, ray, t_min, t_max) ==
    IF SolNeg(s, ray) > t_min /\ SolNeg(s, ray) < t_max THEN Some(SolNeg(s, ray))
    ELSE IF SolPos(s, ray) > t_min /\ SolPos(s, ray) < t_max
         THEN Some(SolPos(s, ray))
         ELSE None

HitRecord(t, hp, normal, material) ==
    [t |-> t, p |-> hp, normal |-> normal, material |-> material]

SphereHit(s, ray, t_min, t_max) ==
    IF Discriminant(s, ray) <= 0 THEN None
    ELSE LET t == SelectT(s, ray, t_min, t_max)
         IN  IF t = None THEN None
             ELSE LET hp == PointAtParameter(ray, Val(t))
                  IN  Some(HitRecord(Val(t), hp,
                                     DivS(Sub(hp, s.center), s.radius),
                                     s.material))

(***************************************************************************)
(* World::hit                                                              *)
(***************************************************************************)
\* what the closure of filter_map returns for each primitive, in order
Queries(w, ray, t_min, t_max) ==
    [n \in 1..Len(w) |-> SphereHit(w[n], ray, t_min, t_max)]

\* Iterator::filter_map: the Some values, in order
RECURSIVE FilterMap(_)
FilterMap(qs) ==
    IF qs = <<>> THEN <<>>
    ELSE IF Head(qs) = None THEN FilterMap(Tail(qs))
         ELSE <<Val(Head(qs))>> \o FilterMap(Tail(qs))

\* the mutant of MinByKey: the last of the hits
MinByKeyLast(hs) ==
    IF hs = <<>> THEN None ELSE Some(hs[Len(hs)])

\* Iterator::min_by_key on the key t: the first of the least elements
RECURSIVE MinFold(_, _)
MinFold(best, hs) ==
    IF hs = <<>> THEN best
    ELSE MinFold(IF Head(hs).t < best.t THEN Head(hs) ELSE best, Tail(hs))
MinByKey(hs) ==
    IF hs = <<>> THEN None ELSE Some(MinFold(Head(hs), Tail(hs)))

WorldHit(w, ray, t_min, t_max) == MinByKey(FilterMap(Queries(w, ray, t_min, t_max)))

(***************************************************************************)
(* Materials                                                               *)
(***************************************************************************)
Lambertian(albedo) == [kind |-> "Lambertian", albedo |-> albedo, fuzz |-> 0]
Metal(albedo, fuzz) == [kind |-> "Metal", albedo |-> albedo, fuzz |-> fuzz]
Scatter(attenuation, scattered) ==
    [attenuation |-> attenuation, scattered |-> scattered]

LambertianScatter(m, ray, h, rp) ==
    LET target == Add(Add(h.p, h.normal), rp)
    IN  Some(Scatter(m.albedo, Ray(h.p, Sub(target, h.p))))

\* the direction of the ray Metal::scatter builds
MetalDirection(m, ray, h, rp) ==
    Add(Reflect(Unit(ray.b), h.normal), MulS(rp, m.fuzz))

\* the mutant of MetalScatter: a direction along the surface is accepted
MetalScatterTangent(m, ray, h, rp) ==
    LET scattered == Ray(h.p, MetalDirection(m, ray, h, rp))
    IN  IF Dot(scattered.b, h.normal) >= 0
        THEN Some(Scatter(m.albedo, scattered))
        ELSE None

MetalScatter(m, ray, h, rp) ==
    LET scattered == Ray(h.p, MetalDirection(m, ray, h, rp))
    IN  IF Dot(scattered.b, h.normal) > 0
        THEN Some(Scatter(m.albedo, scattered))
        ELSE None

\* hit_record.material.scatter(&r, &hit_record), rp the point that
\* random_in_unit_sphere returned to it
MaterialScatter(m, ray, h, rp) ==
    IF m.kind = "Lambertian" THEN LambertianScatter(m, ray, h, rp)
                             ELSE MetalScatter(m, ray, h, rp)

(***************************************************************************)
(* Colours                                                                 *)
(***************************************************************************)
Black == <<0, 0, 0>>
CMul1(a, c) == IF a = NaN \/ c = NaN THEN NaN ELSE TDiv(a * c, CQ)
CAdd1(a, c) == IF a = NaN \/ c = NaN THEN NaN ELSE a + c
CDiv1(a, n) == IF a = NaN THEN NaN ELSE TDiv(a, n)
\* Vec3 * Vec3, Vec3 + Vec3 and Vec3 / f64 on colours
CMul(a, c) == <<CMul1(a[1], c[1]), CMul1(a[2], c[2]), CMul1(a[3], c[3])>>
CAdd(a, c) == <<CAdd1(a[1], c[1]), CAdd1(a[2], c[2]), CAdd1(a[3], c[3])>>
CDiv(a, n) == <<CDiv1(a[1], n), CDiv1(a[2], n), CDiv1(a[3], n)>>

\* the None arm of color: the gradient of the unit direction's y
Background(ray) ==
    IF Length(ray.b) = 0 THEN <<NaN, NaN, NaN>>
    ELSE LET uy == TDiv(ray.b[2] * CQ * CQ, ISqrt(Dot(ray.b, ray.b) * CQ * CQ))
             t  == TDiv(uy + CQ, 2)
         IN  <<(CQ - t) + TDiv(t * Cx(1, 2), CQ),
               (CQ - t) + TDiv(t * Cx(7, 10), CQ),
               (CQ - t) + TDiv(t * CQ, CQ)>>

(***************************************************************************)
(* Camera                                                                  *)
(***************************************************************************)
Camera(origin, lower_left_corner, horizontal, vertical) ==
    [origin |-> origin, lower_left_corner |-> lower_left_corner,
     horizontal |-> horizontal, vertical |-> vertical]

GetRay(c, u, v) ==
    Ray(c.origin,
        Add(Add(c.lower_left_corner, MulS(c.horizontal, u)), MulS(c.vertical, v)))

(***************************************************************************)
(* The scene of main, and the other scenes and cameras of the model        *)
(***************************************************************************)
MainCamera ==
    Camera(Vec3(0, 0, 0), Vec3(-2 * Q, -Q, -Q), Vec3(4 * Q, 0, 0), Vec3(0, 2 * Q, 0))

MainWorld ==
    << Sphere(Vec3(0, 0, -Q), Fx(1, 2),
              Lambertian(<<Cx(8, 10), Cx(3, 10), Cx(3, 10)>>)),
       Sphere(Vec3(0, -Fx(1005, 10), -Q), 100 * Q,
              Lambertian(<<Cx(8, 10), Cx(8, 10), 0>>)),
       Sphere(Vec3(Q, 0, -Q), Fx(1, 2),
              Metal(<<Cx(8, 10), Cx(6, 10), Cx(2, 10)>>, 0)),
       Sphere(Vec3(-Q, 0, -Q), Fx(1, 2),
              Metal(<<Cx(8, 10), Cx(8, 10), Cx(8, 10)>>, Fx(7, 10))) >>

\* a camera inside the second sphere of FacingWorld
InsideCamera ==
    Camera(Vec3(0, 0, Q), Vec3(-2 * Q, -Q, -Q), Vec3(4 * Q, 0, 0), Vec3(0, 2 * Q, 0))

\* two spheres that face each other across the origin
FacingWorld ==
    << Sphere(Vec3(0, 0, -Q), Fx(1, 2),
              Lambertian(<<Cx(8, 10), Cx(3, 10), Cx(3, 10)>>)),
       Sphere(Vec3(0, 0, Q), Fx(1, 2),
              Metal(<<Cx(8, 10), Cx(8, 10), Cx(8, 10)>>, Q)) >>

Cameras == {MainCamera, InsideCamera}
Worlds == {MainWorld, FacingWorld, <<>>}

\* what rand::random::<f64>() can return
RandVals(n) == {TDiv(m * Q, n) : m \in 0..(n - 1)}

\* color's window
TMin == Fx(1, 10000)

(***************************************************************************)
(* The program.  pc is "sample" before a sample of main's inner loop,      *)
(* "color" on entry to color, "rius" inside random_in_unit_sphere's loop,  *)
(* "scatter" when it has returned to Material::scatter, "bounce" at the    *)
(* match of color on what scatter returned, "return" when an invocation of *)
(* color has its value, "pixel" after the last sample of a pixel,          *)
(* "pixelstart" at the top of the body of the loop on i, "done" after the  *)
(* loops; "query" and "queried" are before and after a hit query made on   *)
(* its own.                                                                *)
(***************************************************************************)
NoRay == Ray(Vec3(0, 0, 0), Vec3(0, 0, 0))

\* the locals that are not yet assigned
InitLocals ==
    /\ r = NoRay
    /\ win = <<TMin, F64Max>>
    /\ hits = <<>>
    /\ rec = None
    /\ depth = 0
    /\ p = Vec3(0, 0, 0)
    /\ sc = None
    /\ atts = <<>>
    /\ ret = Black
    /\ uv = <<0, 0>>

\* main, up to the loops
Init ==
    /\ pc = "pixelstart"
    /\ world = MainWorld
    /\ cam = MainCamera
    /\ img_data = <<>>
    /\ j = NY - 1
    /\ i = 0
    /\ k = 0
    /\ col = Black
    /\ InitLocals

\* let mut col = Vec3(0., 0., 0.), and the start of the loop on _k
PixelStart ==
    /\ pc = "pixelstart"
    /\ col' = Black
    /\ k' = 0
    /\ pc' = "sample"
    /\ UNCHANGED <<world, cam, r, win, hits, rec, depth, p, sc, atts, ret,
                   i, j, uv, img_data>>

\* (i + rand) / nx
Jitter(n, x, size) == TDiv((n * Q + x) * Q, size * Q)

\* one sample: u, v, cam.get_ray(u, v), and the call color(r, &world, 0)
Sample(x, y) ==
    /\ pc = "sample"
    /\ uv' = <<Jitter(i, x, NX), Jitter(j, y, NY)>>
    /\ r' = GetRay(cam, uv'[1], uv'[2])
    /\ depth' = 0
    /\ atts' = <<>>
    /\ pc' = "color"
    /\ UNCHANGED <<world, cam, win, hits, rec, p, sc, ret, col, i, j, k, img_data>>

\* the mutant of ColorHit: only the ray of main gets the gradient
ColorHitPrimaryOnly ==
    /\ pc = "color"
    /\ win' = <<TMin, F64Max>>
    /\ hits' = Queries(world, r, TMin, F64Max)
    /\ rec' = WorldHit(world, r, TMin, F64Max)
    /\ IF rec' = None
       THEN ret' = (IF depth = 0 THEN Background(r) ELSE Black) /\ pc' = "return"
       ELSE ret' = ret /\ pc' = "rius"
    /\ UNCHANGED <<world, cam, r, depth, p, sc, atts, col, i, j, k, uv, img_data>>

\* color: world.hit(&r, 0.0001, MAX), and the None arm
ColorHit ==
    /\ pc = "color"
    /\ win' = <<TMin, F64Max>>
    /\ hits' = Queries(world, r, TMin, F64Max)
    /\ rec' = WorldHit(world, r, TMin, F64Max)
    /\ IF rec' = None
       THEN ret' = Background(r) /\ pc' = "return"
       ELSE ret' = ret /\ pc' = "rius"
    /\ UNCHANGED <<world, cam, r, depth, p, sc, atts, col, i, j, k, uv, img_data>>

\* 2.0 * Vec3(x, y, z) - Vec3(1.0, 1.0, 1.0)
Candidate(x, y, z) == Sub(MulS(Vec3(x, y, z), 2 * Q), Vec3(Q, Q, Q))

\* the mutant of RandomInUnitSphere: a point on the sphere is returned
RandomOnOrInUnitSphere(x, y, z) ==
    /\ pc = "rius"
    /\ p' = Candidate(x, y, z)
    /\ pc' = IF SquaredLength(p') <= Q * Q THEN "scatter" ELSE "rius"
    /\ UNCHANGED <<world, cam, r, win, hits, rec, depth, sc, atts, ret, col,
                   i, j, k, uv, img_data>>

\* one turn of random_in_unit_sphere's loop, x, y, z the three draws
RandomInUnitSphere(x, y, z) ==
    /\ pc = "rius"
    /\ p' = Candidate(x, y, z)
    /\ pc' = IF SquaredLength(p') < Q * Q THEN "scatter" ELSE "rius"
    /\ UNCHANGED <<world, cam, r, win, hits, rec, depth, sc, atts, ret, col,
                   i, j, k, uv, img_data>>

\* the rest of hit_record.material.scatter(&r, &hit_record)
ScatterCall ==
    /\ pc = "scatter"
    /\ sc' = MaterialScatter(Val(rec).material, r, Val(rec), p)
    /\ pc' = "bounce"
    /\ UNCHANGED <<world, cam, r, win, hits, rec, depth, p, atts, ret, col,
                   i, j, k, uv, img_data>>

\* the mutant of Bounce: the invocation of depth 50 recurses as well
BounceOneMore ==
    /\ pc = "bounce"
    /\ IF sc # None /\ depth <= MaxDepth
       THEN /\ atts' = Append(atts, Val(sc).attenuation)
            /\ r' = Val(sc).scattered
            /\ depth' = depth + 1
            /\ pc' = "color"
            /\ ret' = ret
       ELSE /\ ret' = Black
            /\ pc' = "return"
            /\ UNCHANGED <<atts, r, depth>>
    /\ UNCHANGED <<world, cam, win, hits, rec, p, sc, col, i, j, k, uv, img_data>>

\* the match on what scatter returned: the recursive call, or black
Bounce ==
    /\ pc = "bounce"
    /\ IF sc # None /\ depth < MaxDepth
       THEN /\ atts' = Append(atts, Val(sc).attenuation)
            /\ r' = Val(sc).scattered
            /\ depth' = depth + 1
            /\ pc' = "color"
            /\ ret' = ret
       ELSE /\ ret' = Black
            /\ pc' = "return"
            /\ UNCHANGED <<atts, r, depth>>
    /\ UNCHANGED <<world, cam, win, hits, rec, p, sc, col, i, j, k, uv, img_data>>

\* a recursive call returns: scatter.attenuation * color(...)
Return ==
    /\ pc = "return"
    /\ atts # <<>>
    /\ ret' = CMul(atts[Len(atts)], ret)
    /\ atts' = SubSeq(atts, 1, Len(atts) - 1)
    /\ depth' = depth - 1
    /\ UNCHANGED <<pc, world, cam, r, win, hits, rec, p, sc, col, i, j, k, uv,
                   img_data>>

\* the call of main returns: col = col + color(r, &world, 0)
Accumulate ==
    /\ pc = "return"
    /\ atts = <<>>
    /\ col' = CAdd(col, ret)
    /\ k' = k + 1
    /\ pc' = IF k + 1 < NS THEN "sample" ELSE "pixel"
    /\ UNCHANGED <<world, cam, r, win, hits, rec, depth, p, sc, atts, ret,
                   i, j, uv, img_data>>

\* the mutant of GammaQuantize: 256 * sqrt, wrapping at 256
GammaQuantizeWrap(c) ==
    IF c = NaN THEN 0
    ELSE TDiv(256 * 100 * ISqrt(c * CQ * SP * SP), 100 * CQ * SP) % 256

\* (255.99 * c.sqrt()) as u8
GammaQuantize(c) ==
    IF c = NaN THEN 0
    ELSE LET b == TDiv(25599 * ISqrt(c * CQ * SP * SP), 100 * CQ * SP)
         IN  IF b > 255 THEN 255 ELSE b

\* the mutant of PixelBytes: the alpha byte first
PixelBytesAlphaFirst(sum) ==
    LET c == CDiv(sum, NS)
    IN  <<255, GammaQuantize(c[1]), GammaQuantize(c[2]), GammaQuantize(c[3])>>

\* the four bytes main pushes for a pixel of colour sum
PixelBytes(sum) ==
    LET c == CDiv(sum, NS)
    IN  <<GammaQuantize(c[1]), GammaQuantize(c[2]), GammaQuantize(c[3]), 255>>

\* the end of a pixel: average, gamma, the four pushes, and the loop steps
PixelDone ==
    /\ pc = "pixel"
    /\ img_data' = img_data \o PixelBytes(col)
    /\ IF i + 1 < NX
       THEN i' = i + 1 /\ j' = j /\ pc' = "pixelstart"
       ELSE IF j > 0
            THEN i' = 0 /\ j' = j - 1 /\ pc' = "pixelstart"
            ELSE i' = i /\ j' = j /\ pc' = "done"
    /\ UNCHANGED <<world, cam, r, win, hits, rec, depth, p, sc, atts, ret, col,
                   k, uv>>

ColorStep(rand) ==
    \/ ColorHit
    \/ \E x, y, z \in rand : RandomInUnitSphere(x, y, z)
    \/ ScatterCall
    \/ Bounce
    \/ Return

Next ==
    \/ PixelStart
    \/ \E x, y \in RandVals(RandN) : Sample(x, y)
    \/ ColorStep(RandVals(RandN))
    \/ Accumulate
    \/ PixelDone

Spec == Init /\ [][Next]_vars

(***************************************************************************)
(* One pixel of any camera and scene: the loop on _k, from its start to    *)
(* the last sample.                                                        *)
(***************************************************************************)
InitColor ==
    /\ pc = "pixelstart"
    /\ world \in Worlds
    /\ cam \in Cameras
    /\ img_data = <<>>
    /\ j \in 0..(NY - 1)
    /\ i \in 0..(NX - 1)
    /\ k = 0
    /\ col = Black
    /\ InitLocals

NextColor ==
    \/ PixelStart
    \/ \E x, y \in RandVals(RandN) : Sample(x, y)
    \/ ColorStep(RandVals(RandN))
    \/ Accumulate

SpecColor == InitColor /\ [][NextColor]_vars

(***************************************************************************)
(* A hit query on its own: any ray and window of the bounds, any scene.    *)
(***************************************************************************)
Origins == {Vec3(0, y, z) : y, z \in {n * Fx(1, 2) : n \in (-MaxCoord)..MaxCoord}}
Directions == {Vec3(x, y, z) : x, y, z \in {-Q, 0, Q}}
Bounds == {n * Fx(1, 2) : n \in 0..MaxWin} \cup {TMin, F64Max}

InitHit ==
    /\ pc = "query"
    /\ world \in Worlds
    /\ cam = MainCamera
    /\ img_data = <<>>
    /\ j = 0
    /\ i = 0
    /\ k = 0
    /\ col = Black
    /\ r \in {Ray(a, b) : a \in Origins, b \in Directions}
    /\ win \in {<<lo, hi>> : lo \in Bounds, hi \in Bounds}
    /\ hits = <<>>
    /\ rec = None
    /\ depth = 0
    /\ p = Vec3(0, 0, 0)
    /\ sc = None
    /\ atts = <<>>
    /\ ret = Black
    /\ uv = <<0, 0>>

\* world.hit(&r, t_min, t_max)
HitQuery ==
    /\ pc = "query"
    /\ hits' = Queries(world, r, win[1], win[2])
    /\ rec' = WorldHit(world, r, win[1], win[2])
    /\ pc' = "queried"
    /\ UNCHANGED <<world, cam, r, win, depth, p, sc, atts, ret, col, i, j, k,
                   uv, img_data>>

SpecHit == InitHit /\ [][HitQuery]_vars

(***************************************************************************)
(* A scatter on its own: the hit of any ray of the bounds in color's       *)
(* window, then the material's scatter, the generator on a finer grid.     *)
(***************************************************************************)
InitScatter == InitHit /\ win = <<TMin, F64Max>>

\* hit_record.material.scatter(&r, &hit_record) is called
ScatterQuery ==
    /\ pc = "queried"
    /\ rec # None
    /\ pc' = "rius"
    /\ UNCHANGED <<world, cam, r, win, hits, rec, depth, p, sc, atts, ret, col,
                   i, j, k, uv, img_data>>

NextScatter ==
    \/ HitQuery
    \/ ScatterQuery
    \/ \E x, y, z \in RandVals(RandFine) : RandomInUnitSphere(x, y, z)
    \/ ScatterCall

SpecScatter == InitScatter /\ [][NextScatter]_vars

\* the points the generator can make random_in_unit_sphere return
AcceptedPoints ==
    {q \in {Candidate(x, y, z) : x, y, z \in RandVals(RandFine)} :
        SquaredLength(q) < Q * Q}

\* a turn of random_in_unit_sphere's loop that ends it
AcceptedDraw ==
    /\ pc = "rius"
    /\ p' \in AcceptedPoints
    /\ pc' = "scatter"
    /\ UNCHANGED <<world, cam, r, win, hits, rec, depth, sc, atts, ret, col,
                   i, j, k, uv, img_data>>

\* the generator does not withhold the points inside the unit sphere for ever
FairSpecScatter == InitScatter /\ [][NextScatter]_vars /\ WF_vars(AcceptedDraw)

(***************************************************************************)
(* The end of a pixel on its own: any sum of NS colours with channels in   *)
(* 0..1.                                                                   *)
(***************************************************************************)
InitGamma ==
    /\ pc = "pixel"
    /\ world = MainWorld
    /\ cam = MainCamera
    /\ img_data = <<>>
    /\ j = NY - 1
    /\ i = 0
    /\ k = NS
    /\ col \in {<<x, y, 0>> : x, y \in 0..(NS * CQ)}
    /\ InitLocals

SpecGamma == InitGamma /\ [][PixelDone]_vars

(***************************************************************************)
(* Properties                                                              *)
(***************************************************************************)
Inside(t, w) == w[1] < t /\ t < w[2]
T(h) == Val(h).t

\* C1: whenever Sphere::hit returns a hit record to a query with window
\* (t_min, t_max), its t satisfies t_min < t < t_max strictly.
C1_HitInsideWindow ==
    pc = "queried" =>
        \A n \in DOMAIN hits : hits[n] # None => Inside(T(hits[n]), win)

\* a hit was returned to a query whose window cuts off one of the two roots
C1_Witness ==
    /\ pc = "queried"
    /\ \E n \in DOMAIN hits :
          /\ hits[n] # None
          /\ Discriminant(world[n], r) > 0
          /\ ~Inside(SolNeg(world[n], r), win)
          /\ win[2] < F64Max

\* C2: Sphere::hit returns no hit when the discriminant is <= 0; otherwise
\* the smaller root when it is strictly inside the window; otherwise the
\* larger root when that is strictly inside; otherwise no hit.
C2_RootSelection ==
    pc = "queried" =>
        \A n \in DOMAIN hits :
            LET s == world[n]
            IN  IF Discriminant(s, r) <= 0 THEN hits[n] = None
                ELSE IF Inside(SolNeg(s, r), win)
                     THEN hits[n] # None /\ T(hits[n]) = SolNeg(s, r)
                     ELSE IF Inside(SolPos(s, r), win)
                          THEN hits[n] # None /\ T(hits[n]) = SolPos(s, r)
                          ELSE hits[n] = None

\* both roots are inside the window, they differ, and the smaller is returned
C2_Witness ==
    /\ pc = "queried"
    /\ \E n \in DOMAIN hits :
          /\ Discriminant(world[n], r) > 0
          /\ Inside(SolNeg(world[n], r), win)
          /\ Inside(SolPos(world[n], r), win)
          /\ SolNeg(world[n], r) < SolPos(world[n], r)
          /\ hits[n] # None
          /\ T(hits[n]) = SolNeg(world[n], r)

\* C3: World::hit queries every primitive with the window it was given and
\* returns one of the reported hits, of the least t; it returns none exactly
\* when no primitive reports a hit (so for the empty collection).
C3_NearestHit ==
    pc = "queried" =>
        /\ DOMAIN hits = 1..Len(world)
        /\ \A n \in DOMAIN hits : hits[n] = SphereHit(world[n], r, win[1], win[2])
        /\ (rec = None) = (\A n \in DOMAIN hits : hits[n] = None)
        /\ rec # None =>
              /\ \E n \in DOMAIN hits : hits[n] = rec
              /\ \A n \in DOMAIN hits : hits[n] # None => T(rec) <= T(hits[n])

\* two primitives report hits of different t, the later of the two the nearer
C3_Witness ==
    /\ pc = "queried"
    /\ rec # None
    /\ \E m, n \in DOMAIN hits :
          /\ m < n
          /\ hits[m] # None
          /\ hits[n] # None
          /\ T(hits[n]) < T(hits[m])
          /\ T(rec) = T(hits[n])

\* C4: color is never entered with a depth above 50 and never nests more
\* than 51 invocations; the depth grows only by one, at the match of an
\* invocation that has a hit, a Scatter and a depth below 50.
C4_DepthBounded ==
    /\ [](depth <= MaxDepth /\ Len(atts) = depth /\ Len(atts) + 1 <= MaxDepth + 1)
    /\ [][depth' > depth =>
            /\ depth' = depth + 1
            /\ pc = "bounce"
            /\ pc' = "color"
            /\ rec # None
            /\ sc # None
            /\ depth < MaxDepth]_vars

\* color was entered with depth 50, from the call color(r, world, 0)
C4_Witness == pc = "color" /\ depth = MaxDepth /\ Len(atts) = MaxDepth

\* C5: an invocation of color with a hit returns black when scatter returned
\* none or its depth is 50 or more; an invocation without a hit returns the
\* gradient of its ray's direction, whatever its depth, and calls no scatter.
C5_BlackOrBackground ==
    /\ [][(pc = "bounce" /\ (sc = None \/ depth >= MaxDepth)) =>
            (pc' = "return" /\ ret' = Black /\ depth' = depth /\ atts' = atts)]_vars
    /\ [][(pc = "color" /\ WorldHit(world, r, TMin, F64Max) = None) =>
            /\ pc' = "return"
            /\ ret' = Background(Ray(Vec3(0, 0, 0), r.b))
            /\ sc' = sc
            /\ p' = p
            /\ depth' = depth]_vars

\* the invocation of depth 50 had a hit and a Scatter, and returned black
C5_Witness ==
    /\ pc = "return"
    /\ depth = MaxDepth
    /\ rec # None
    /\ sc # None
    /\ ret = Black

\* C6: the buffer only grows, by the four bytes R, G, B, 255 of the pixel of
\* column i and row j, which start at index 4 * ((NY - 1 - j) * NX + i); its
\* length is always a multiple of 4, and after the loops it is NX * NY * 4
\* with every fourth byte 255.
C6_BufferLayout ==
    /\ [](Len(img_data) % 4 = 0)
    /\ [](pc # "done" => Len(img_data) = 4 * ((NY - 1 - j) * NX + i))
    /\ [](pc = "done" =>
            /\ Len(img_data) = NX * NY * 4
            /\ \A n \in 1..(NX * NY) : img_data[4 * n] = 255)
    /\ [][/\ Len(img_data') >= Len(img_data)
          /\ SubSeq(img_data', 1, Len(img_data)) = img_data
          /\ pc = "pixel" =>
                LET c == CDiv(col, NS)
                IN  SubSeq(img_data', Len(img_data) + 1, Len(img_data'))
                        = <<GammaQuantize(c[1]), GammaQuantize(c[2]),
                            GammaQuantize(c[3]), 255>>
          /\ pc # "pixel" => img_data' = img_data]_vars

\* the loops are over and the buffer is full
C6_Witness == pc = "done" /\ Len(img_data) = NX * NY * 4

\* C7: the ray of get_ray starts at the camera's origin and has the
\* direction lower_left_corner + u * horizontal + v * vertical - origin.
C7_GetRayDirection ==
    (pc = "color" /\ depth = 0) =>
        /\ r.a = cam.origin
        /\ r.b = Sub(Add(Add(cam.lower_left_corner, MulS(cam.horizontal, uv[1])),
                         MulS(cam.vertical, uv[2])),
                     cam.origin)

\* the averaged channels and the bytes of the pixel just pushed
Averaged == CDiv(col, NS)
Pushed == SubSeq(img_data, Len(img_data) - 3, Len(img_data))
JustPushed == pc \in {"pixelstart", "done"} /\ Len(img_data) >= 4

\* C8 as stated: of two averaged channel values x < y the byte of y is
\* strictly the greater.
C8_GammaStrict ==
    JustPushed =>
        \A a, b \in 1..3 : Averaged[a] < Averaged[b] => Pushed[a] < Pushed[b]

\* C8 as amended: of two averaged channel values x < y in 0..1 the byte of
\* y is not below the byte of x.
C8_GammaMonotone ==
    JustPushed =>
        \A a, b \in 1..3 : Averaged[a] < Averaged[b] => Pushed[a] <= Pushed[b]

\* two different channel values that both lie in one byte's interval
C8_Witness ==
    /\ JustPushed
    /\ 0 < Averaged[1]
    /\ Averaged[1] < Averaged[2]
    /\ Pushed[1] = Pushed[2]

\* C9: scatter returns none only for Metal, and exactly when the perturbed
\* reflected direction has a dot product <= 0 with the normal; Lambertian
\* always returns a Scatter; a Scatter has the material's albedo as its
\* attenuation and the hit point as the origin of its ray.
C9_ScatterContract ==
    pc = "bounce" =>
        LET h == Val(rec)
            m == h.material
            d == Add(Reflect(Unit(r.b), h.normal), MulS(p, m.fuzz))
        IN  /\ m.kind = "Lambertian" => sc # None
            /\ m.kind = "Metal" => ((sc = None) = (Dot(d, h.normal) <= 0))
            /\ sc # None =>
                  /\ Val(sc).attenuation = m.albedo
                  /\ Val(sc).scattered.a = h.p
                  /\ m.kind = "Metal" => Val(sc).scattered.b = d

\* a Metal whose perturbed direction lies along the surface absorbs
C9_Witness ==
    /\ pc = "bounce"
    /\ Val(rec).material.kind = "Metal"
    /\ p # Vec3(0, 0, 0)
    /\ Dot(MetalDirection(Val(rec).material, r, Val(rec), p), Val(rec).normal) = 0
    /\ sc = None

\* C10: random_in_unit_sphere returns only a point of squared length below
\* 1, redraws while the squared length is 1 or more, and returns in the end
\* when the generator does not withhold such a point for ever.
C10_RejectionSampling ==
    /\ [](pc = "scatter" => SquaredLength(p) < Q * Q)
    /\ [][(pc = "rius" /\ SquaredLength(p') >= Q * Q) => pc' = "rius"]_vars
    /\ [][(pc = "rius" /\ SquaredLength(p') < Q * Q) => pc' = "scatter"]_vars
    /\ (pc = "rius") ~> (pc = "scatter")

\* a point other than the centre was returned
C10_Witness == pc = "scatter" /\ p # Vec3(0, 0, 0) /\ SquaredLength(p) < Q * Q

====
